---- MODULE Spec2Model ----
(***************************************************************************)
(* A model of the incremental SHA-1 hasher of src/src/lib.rs.              *)
(*                                                                         *)
(* Representation.  TLC's integers are 32-bit signed, so a u32 word is     *)
(* kept as a pair <<hi, lo>> of its two 16-bit halves; every word          *)
(* operation below works on the halves and is exact modulo 2^32.  A byte   *)
(* is a number in 0..255.  The 64-byte chunk is a sequence of 64 bytes:    *)
(* Rust's chunk[k] is chunk[k + 1] here.  chunks_processed (u64) and the   *)
(* message length (u64) stay far below 2^31 within the bounds.             *)
(***************************************************************************)
EXTENDS Integers, Sequences, FiniteSets, TLC

VARIABLES
  s,         \* the Sha1 struct of the caller
  msg,       \* the bytes passed to s.update since new() or reset(), in order
  fin,       \* the number of s.finish() calls since new() or reset()
  out,       \* the digest the last call returned, <<>> if it returned none
  panicked,  \* TRUE once a call has panicked
  fed,       \* the number of bytes passed to update in the whole run
  reuse,     \* the number of calls that reused the struct: reset() calls
             \* and calls on a finished struct
  t,         \* a clone of s
  tmsg,      \* the bytes t has absorbed since new() or reset(), those
             \* absorbed before the clone was made included
  tfin,      \* the number of finish() calls on t, those before the clone
             \* was made included
  tout,      \* the digest the last call on t returned, <<>> if none
  cloned,    \* TRUE once s.clone() has been called
  input,     \* the data of digest / the contents of the file of digest_file
  pc,        \* where the caller of digest or digest_file is
  bytes,     \* the byte count io::copy has reached
  err,       \* the kind of the io::Error digest_file returned, "none" if none
  read_failed, \* TRUE once a read of the file has returned an error
  ret,       \* what the last write or flush call returned, <<>> if none
  sched,     \* the 80-word buffer w the last process_chunk call built
  blocks,    \* the chunks the last call on s passed to process_chunk, in
             \* order, if that call was a finish() of Spec that returned;
             \* <<>> otherwise
  loop       \* the local variables of the update call in progress, or of
             \* the last one

hvars == <<s, msg, fin, out, panicked, fed, reuse>>
cvars == <<t, tmsg, tfin, tout, cloned>>
evars ==
  <<input, pc, bytes, err, read_failed, ret, sched, blocks, loop>>
vars == <<hvars, cvars, evars>>

(***************************************************************************)
(* Bitwise primitives on bytes, 16-bit halves and 32-bit words.            *)
(***************************************************************************)
RECURSIVE And8(_, _, _)
And8(a, b, n) ==
  IF n = 0 THEN 0
  ELSE ((a % 2) * (b % 2)) + (2 * And8(a \div 2, b \div 2, n - 1))

\* a & b for all pairs of bytes, computed once
AndTab == [a \in 0..255 |-> [b \in 0..255 |-> And8(a, b, 8)]]

And16(a, b) ==
  (AndTab[a \div 256][b \div 256] * 256) + AndTab[a % 256][b % 256]

Pow2(n) ==
  CASE n = 0 -> 1 [] n = 1 -> 2 [] n = 2 -> 4 [] n = 3 -> 8
    [] n = 4 -> 16 [] n = 5 -> 32 [] n = 6 -> 64 [] n = 7 -> 128
    [] n = 8 -> 256 [] n = 9 -> 512 [] n = 10 -> 1024 [] n = 11 -> 2048
    [] n = 12 -> 4096 [] n = 13 -> 8192 [] n = 14 -> 16384
    [] n = 15 -> 32768 [] n = 16 -> 65536

\* x & y, x | y, x ^ y, !x on u32
bitand(x, y) == <<And16(x[1], y[1]), And16(x[2], y[2])>>
bitor(x, y) ==
  <<(x[1] + y[1]) - And16(x[1], y[1]), (x[2] + y[2]) - And16(x[2], y[2])>>
bitxor(x, y) ==
  <<(x[1] + y[1]) - (2 * And16(x[1], y[1])),
    (x[2] + y[2]) - (2 * And16(x[2], y[2]))>>
bitnot(x) == <<65535 - x[1], 65535 - x[2]>>

\* x << n and x >> n on u32, 0 < n < 32: bits shifted out are dropped
shl(x, n) ==
  IF n < 16
  THEN <<((x[1] * Pow2(n)) % 65536) + (x[2] \div Pow2(16 - n)),
         (x[2] * Pow2(n)) % 65536>>
  ELSE <<(x[2] * Pow2(n - 16)) % 65536, 0>>
shr(x, n) ==
  IF n < 16
  THEN <<x[1] \div Pow2(n),
         ((x[1] % Pow2(n)) * Pow2(16 - n)) + (x[2] \div Pow2(n))>>
  ELSE <<0, x[1] \div Pow2(n - 16)>>

\* leftrotate without the bits that wrap around: `word << bits` alone
leftrotate_no_wrap(word, bits) == shl(word, bits)

\* fn leftrotate(word: u32, bits: u8) -> u32
leftrotate(word, bits) == bitor(shl(word, bits), shr(word, 32 - bits))

\* u32::wrapping_add
wrapping_add(x, y) ==
  LET lo == x[2] + y[2]
      hi == x[1] + y[1] + (lo \div 65536)
  IN  <<hi % 65536, lo % 65536>>

\* u32::from_be_bytes of a 4-byte slice
from_be_bytes(b) == <<(b[1] * 256) + b[2], (b[3] * 256) + b[4]>>

\* the bytes in little-endian order, least significant first
RECURSIVE to_le_bytes(_, _)
to_le_bytes(v, n) ==
  IF n = 0 THEN <<>> ELSE <<v % 256>> \o to_le_bytes(v \div 256, n - 1)

\* u64::to_be_bytes, as the n low-order bytes of v, most significant first
RECURSIVE to_be_bytes(_, _)
to_be_bytes(v, n) ==
  IF n = 0 THEN <<>> ELSE Append(to_be_bytes(v \div 256, n - 1), v % 256)

(***************************************************************************)
(* The Sha1 struct and its methods.                                        *)
(***************************************************************************)
\* the five initial hash words 0x67452301, 0xEFCDAB89, 0x98BADCFE,
\* 0x10325476, 0xC3D2E1F0
InitH0 == <<26437, 8961>>
InitH1 == <<61389, 43913>>
InitH2 == <<39098, 56574>>
InitH3 == <<4146, 21622>>
InitH4 == <<50130, 57840>>

\* Sha1::new
new ==
  [chunk |-> [k \in 1..64 |-> 0], used |-> 0, chunks_processed |-> 0,
   h0 |-> InitH0, h1 |-> InitH1, h2 |-> InitH2, h3 |-> InitH3, h4 |-> InitH4]

\* reset without `self.used = 0`
reset_keeps_used(self) ==
  [self EXCEPT !.chunks_processed = 0,
               !.h0 = InitH0, !.h1 = InitH1, !.h2 = InitH2,
               !.h3 = InitH3, !.h4 = InitH4]

\* reset without `self.chunks_processed = 0`
reset_keeps_count(self) ==
  [self EXCEPT !.used = 0,
               !.h0 = InitH0, !.h1 = InitH1, !.h2 = InitH2,
               !.h3 = InitH3, !.h4 = InitH4]

\* Sha1::reset: the chunk is left as it is
reset(self) ==
  [self EXCEPT !.used = 0, !.chunks_processed = 0,
               !.h0 = InitH0, !.h1 = InitH1, !.h2 = InitH2,
               !.h3 = InitH3, !.h4 = InitH4]

\* a clone that gets a fresh zeroed chunk instead of a copy of the bytes
clone_fresh_chunk(self) == [self EXCEPT !.chunk = [k \in 1..64 |-> 0]]

\* derive(Clone): a field-by-field copy, the 64-byte array included
clone(self) == self

\* the first 16 words of the schedule: big-endian words of the chunk
first16(chunk) ==
  [i \in 1..16 |-> from_be_bytes(SubSeq(chunk, (4 * i) - 3, 4 * i))]

\* for i in 16..32: w[i] = leftrotate(w[i-3] ^ w[i-8] ^ w[i-14] ^ w[i-16], 1)
\* (w holds w[0..i) and i = Len(w); Rust's w[j] is w[j + 1])
RECURSIVE extend16to32(_)
extend16to32(w) ==
  LET i == Len(w)
  IN  IF i >= 32 THEN w
      ELSE extend16to32(Append(w,
             leftrotate(bitxor(bitxor(bitxor(w[i - 2], w[i - 7]), w[i - 13]),
                               w[i - 15]), 1)))

\* the second loop with the rotation of the first
RECURSIVE extend32to80_rot1(_)
extend32to80_rot1(w) ==
  LET i == Len(w)
  IN  IF i >= 80 THEN w
      ELSE extend32to80_rot1(Append(w,
             leftrotate(bitxor(bitxor(bitxor(w[i - 5], w[i - 15]), w[i - 27]),
                               w[i - 31]), 1)))

\* for i in 32..80: w[i] = leftrotate(w[i-6] ^ w[i-16] ^ w[i-28] ^ w[i-32], 2)
RECURSIVE extend32to80(_)
extend32to80(w) ==
  LET i == Len(w)
  IN  IF i >= 80 THEN w
      ELSE extend32to80(Append(w,
             leftrotate(bitxor(bitxor(bitxor(w[i - 5], w[i - 15]), w[i - 27]),
                               w[i - 31]), 2)))

\* the 80-word buffer w of process_chunk
schedule(chunk) == extend32to80(extend16to32(first16(chunk)))

\* macro shuffle: v is the working state a, b, c, d, e with the number n of
\* words consumed so far
shuffle(v, w, f, k) ==
  LET tmp == wrapping_add(wrapping_add(wrapping_add(wrapping_add(
               leftrotate(v.a, 5), f), v.e), k), w)
  IN  [a |-> tmp, b |-> v.a, c |-> leftrotate(v.b, 30), d |-> v.c,
       e |-> v.d, n |-> v.n + 1]

\* for &w in &w[0..20]: f = (b & c) | ((!b) & d), k = 0x5A827999
RECURSIVE rounds_0_20(_, _)
rounds_0_20(v, w) ==
  IF v.n >= 20 THEN v
  ELSE rounds_0_20(shuffle(v, w[v.n + 1],
                           bitor(bitand(v.b, v.c), bitand(bitnot(v.b), v.d)),
                           <<23170, 31129>>), w)

\* for &w in &w[20..40]: f = b ^ c ^ d, k = 0x6ED9EBA1
RECURSIVE rounds_20_40(_, _)
rounds_20_40(v, w) ==
  IF v.n >= 40 THEN v
  ELSE rounds_20_40(shuffle(v, w[v.n + 1], bitxor(bitxor(v.b, v.c), v.d),
                            <<28377, 60321>>), w)

\* for &w in &w[40..60]: f = (b & c) | (b & d) | (c & d), k = 0x8F1BBCDC
RECURSIVE rounds_40_60(_, _)
rounds_40_60(v, w) ==
  IF v.n >= 60 THEN v
  ELSE rounds_40_60(shuffle(v, w[v.n + 1],
                            bitor(bitor(bitand(v.b, v.c), bitand(v.b, v.d)),
                                  bitand(v.c, v.d)),
                            <<36635, 48348>>), w)

\* for &w in &w[60..80]: f = b ^ c ^ d, k = 0xCA62C1D6
RECURSIVE rounds_60_80(_, _)
rounds_60_80(v, w) ==
  IF v.n >= 80 THEN v
  ELSE rounds_60_80(shuffle(v, w[v.n + 1], bitxor(bitxor(v.b, v.c), v.d),
                            <<51810, 49622>>), w)

\* the four loops in order
rounds(v, w) == rounds_60_80(rounds_40_60(rounds_20_40(rounds_0_20(v, w), w), w), w)

\* Sha1::process_chunk
process_chunk(self) ==
  LET w == schedule(self.chunk)
      v == rounds([a |-> self.h0, b |-> self.h1, c |-> self.h2,
                   d |-> self.h3, e |-> self.h4, n |-> 0], w)
  IN  [self EXCEPT !.chunks_processed = self.chunks_processed + 1,
                   !.h0 = wrapping_add(self.h0, v.a),
                   !.h1 = wrapping_add(self.h1, v.b),
                   !.h2 = wrapping_add(self.h2, v.c),
                   !.h3 = wrapping_add(self.h3, v.d),
                   !.h4 = wrapping_add(self.h4, v.e)]

\* chunk[lo..hi].copy_from_slice(src), Len(src) = hi - lo
copy_from_slice(chunk, lo, hi, src) ==
  [k \in 1..64 |-> IF lo < k /\ k <= hi THEN src[k - lo] ELSE chunk[k]]

\* &data[lo..hi]
slice(data, lo, hi) == SubSeq(data, lo + 1, hi)

\* the while loop of update and the copy after it
RECURSIVE update_loop(_, _, _, _, _, _)
update_loop(self, data, used, free, i, remaining) ==
  IF remaining >= free
  THEN update_loop(
         process_chunk([self EXCEPT !.chunk =
           copy_from_slice(self.chunk, used, 64, slice(data, i, i + free))]),
         data, 0, 64, i + free, remaining - free)
  ELSE [self EXCEPT
          !.chunk = copy_from_slice(self.chunk, used, used + remaining,
                                    slice(data, i, Len(data))),
          !.used = (used + remaining) % 256]

\* update with `while remaining > free`: a chunk filled exactly is left full
RECURSIVE update_loop_gt(_, _, _, _, _, _)
update_loop_gt(self, data, used, free, i, remaining) ==
  IF remaining > free
  THEN update_loop_gt(
         process_chunk([self EXCEPT !.chunk =
           copy_from_slice(self.chunk, used, 64, slice(data, i, i + free))]),
         data, 0, 64, i + free, remaining - free)
  ELSE [self EXCEPT
          !.chunk = copy_from_slice(self.chunk, used, used + remaining,
                                    slice(data, i, Len(data))),
          !.used = (used + remaining) % 256]
update_leaves_full(self, data) ==
  update_loop_gt(self, data, self.used, 64 - self.used, 0, Len(data))

\* update that starts every call at the head of the chunk (`used = 0`)
update_forgets_used(self, data) ==
  update_loop(self, data, 0, 64, 0, Len(data))

\* update that never stores the new fill count
update_keeps_used(self, data) ==
  [update_loop(self, data, self.used, 64 - self.used, 0, Len(data))
     EXCEPT !.used = self.used]

\* update with `self.used = remaining as u8`: the bytes already buffered are
\* forgotten when the data does not fill the chunk
update_stores_remaining(self, data) ==
  [update_loop(self, data, self.used, 64 - self.used, 0, Len(data))
     EXCEPT !.used = IF Len(data) >= 64 - self.used
                     THEN (self.used + Len(data)) % 64
                     ELSE Len(data)]

\* Sha1::update
update(self, data) ==
  update_loop(self, data, self.used, 64 - self.used, 0, Len(data))

\* the slice operations of update that panic: chunk[used..64] and
\* chunk[used..used + remaining] with a bound above 64, data[i..i + free] and
\* data[i..] with a bound above len(data); 64 - used underflows when used > 64
RECURSIVE update_loop_panics(_, _, _, _, _)
update_loop_panics(len, used, free, i, remaining) ==
  IF remaining >= free
  THEN \/ used > 64
       \/ i + free > len
       \/ update_loop_panics(len, 0, 64, i + free, remaining - free)
  ELSE used + remaining > 64 \/ i > len
update_panics(self, data) ==
  \/ self.used > 64
  \/ update_loop_panics(Len(data), self.used, 64 - self.used, 0, Len(data))

\* chunk[k] = 0 for k in lo..hi
zero_fill(chunk, lo, hi) ==
  [k \in 1..64 |-> IF lo < k /\ k <= hi THEN 0 ELSE chunk[k]]

\* finish with `self.used += 1` moved before the write of 0x80
finish_index_after_increment(self) == self.used + 1 >= 64 \/ self.used + 1 > 255

\* finish indexes chunk[self.used] first: out of range when used >= 64; then
\* `self.used += 1` overflows u8 when used = 255
finish_panics(self) == self.used >= 64 \/ self.used + 1 > 255

\* finish with `if self.used < 56`
finish_trace_lt_56(self) ==
  LET message_length == (self.chunks_processed * 512) + (8 * self.used)
      c1 == [self.chunk EXCEPT ![self.used + 1] = 128]
      u1 == self.used + 1
      first == [self EXCEPT !.chunk = zero_fill(c1, u1, 64), !.used = u1]
      padded ==
        IF u1 < 56
        THEN [self EXCEPT !.chunk = zero_fill(c1, u1, 56), !.used = u1]
        ELSE [process_chunk(first) EXCEPT !.chunk = zero_fill(@, 0, u1)]
      last == [padded EXCEPT !.chunk =
                 copy_from_slice(@, 56, 64, to_be_bytes(message_length, 8))]
  IN  [self |-> process_chunk(last),
       blocks |-> IF u1 < 56 THEN <<last.chunk>>
                  ELSE <<first.chunk, last.chunk>>]

\* finish without the loop `for i in 0..self.used` after the second-to-last
\* chunk: the last chunk keeps the bytes of the chunk before it
finish_trace_keeps_stale(self) ==
  LET message_length == (self.chunks_processed * 512) + (8 * self.used)
      c1 == [self.chunk EXCEPT ![self.used + 1] = 128]
      u1 == self.used + 1
      \* the struct at `self.process_chunk()` of the else branch
      first == [self EXCEPT !.chunk = zero_fill(c1, u1, 64), !.used = u1]
      padded ==
        IF u1 <= 56
        THEN [self EXCEPT !.chunk = zero_fill(c1, u1, 56), !.used = u1]
        ELSE [process_chunk(first) EXCEPT !.chunk = @]
      \* the struct at the last `self.process_chunk()`
      last == [padded EXCEPT !.chunk =
                 copy_from_slice(@, 56, 64, to_be_bytes(message_length, 8))]
  IN  [self |-> process_chunk(last),
       blocks |-> IF u1 <= 56 THEN <<last.chunk>>
                  ELSE <<first.chunk, last.chunk>>]

\* finish without the loop `for i in self.used..56`: the bytes between 0x80
\* and the length are left as they were
finish_trace_no_zero_fill(self) ==
  LET message_length == (self.chunks_processed * 512) + (8 * self.used)
      c1 == [self.chunk EXCEPT ![self.used + 1] = 128]
      u1 == self.used + 1
      \* the struct at `self.process_chunk()` of the else branch
      first == [self EXCEPT !.chunk = zero_fill(c1, u1, 64), !.used = u1]
      padded ==
        IF u1 <= 56
        THEN [self EXCEPT !.chunk = c1, !.used = u1]
        ELSE [process_chunk(first) EXCEPT !.chunk = zero_fill(@, 0, u1)]
      \* the struct at the last `self.process_chunk()`
      last == [padded EXCEPT !.chunk =
                 copy_from_slice(@, 56, 64, to_be_bytes(message_length, 8))]
  IN  [self |-> process_chunk(last),
       blocks |-> IF u1 <= 56 THEN <<last.chunk>>
                  ELSE <<first.chunk, last.chunk>>]

\* Sha1::finish (for a call that does not panic): the struct it leaves, and
\* the chunks it passes to process_chunk, in order
finish_trace(self) ==
  LET message_length == (self.chunks_processed * 512) + (8 * self.used)
      c1 == [self.chunk EXCEPT ![self.used + 1] = 128]
      u1 == self.used + 1
      \* the struct at `self.process_chunk()` of the else branch
      first == [self EXCEPT !.chunk = zero_fill(c1, u1, 64), !.used = u1]
      padded ==
        IF u1 <= 56
        THEN [self EXCEPT !.chunk = zero_fill(c1, u1, 56), !.used = u1]
        ELSE [process_chunk(first) EXCEPT !.chunk = zero_fill(@, 0, u1)]
      \* the struct at the last `self.process_chunk()`
      last == [padded EXCEPT !.chunk =
                 copy_from_slice(@, 56, 64, to_be_bytes(message_length, 8))]
  IN  [self |-> process_chunk(last),
       blocks |-> IF u1 <= 56 THEN <<last.chunk>>
                  ELSE <<first.chunk, last.chunk>>]

\* Sha1::finish, the state it leaves (for a call that does not panic)
finish(self) == finish_trace(self).self

\* [self.h0, self.h1, self.h2, self.h3, self.h4]
hash(self) == <<self.h0, self.h1, self.h2, self.h3, self.h4>>

\* Sha1::digest
digest(data) == hash(finish(update(new, data)))

\* a write that reports success without passing the data to update
write_drops_data(self, data) == [self |-> self, ok |-> Len(data)]

\* a short write: only the first byte of the data is accepted and counted
write_short(self, data) ==
  LET k == IF Len(data) > 1 THEN 1 ELSE Len(data)
  IN  [self |-> update(self, SubSeq(data, 1, k)), ok |-> k]

\* impl Write for Sha1, write: the struct after the call and the count in Ok
write(self, data) == [self |-> update(self, data), ok |-> Len(data)]

\* impl Write for Sha1, flush: the struct after the call; it returns Ok(())
flush(self) == [self |-> self, ok |-> TRUE]

\* digest_file with the error of io::copy dropped instead of returned by `?`
digest_file_swallows_error(self, copied) ==
  LET f == finish(self)
  IN  [self |-> f, ok |-> TRUE, hash |-> hash(f), bytes |-> copied.bytes,
       err |-> "none", finished |-> 1]

\* Sha1::digest_file after io::copy has returned `copied`: `?` returns its
\* error at once, otherwise finish() is called and its hash returned with the
\* byte count (finished is the number of finish() calls made)
digest_file_return(self, copied) ==
  IF copied.ok
  THEN LET f == finish(self)
       IN  [self |-> f, ok |-> TRUE, hash |-> hash(f), bytes |-> copied.bytes,
            err |-> "none", finished |-> 1]
  ELSE [self |-> self, ok |-> FALSE, hash |-> <<>>, bytes |-> copied.bytes,
        err |-> copied.err, finished |-> 0]

(***************************************************************************)
(* The caller.  Spec: one Sha1 struct driven by any sequence of update,    *)
(* finish, reset and new calls.  The caller hashes a text whose byte at    *)
(* offset p is Byte(p), handing it over in pieces of the lengths in Lens.  *)
(***************************************************************************)
\* the most bytes passed to update in a run
MaxFed == 128
\* the most calls that reuse the struct in a run
MaxReuse == 1

\* the lengths of the pieces passed to update
Lens == {0, 55, 56, 63, 64, 119, 120, 128}

Byte(p) == 97 + (p % 26)
\* the n bytes of the text from offset pos on
Piece(pos, n) == [j \in 1..n |-> Byte((pos + j) - 1)]

\* the local variables of update before any call: the data, used, free, i
\* and remaining, with the number of iterations of the while loop made and
\* the struct as it was when update was called
NoLoop ==
  [data |-> <<>>, used |-> 0, free |-> 64, i |-> 0, remaining |-> 0,
   iters |-> 0, self0 |-> new]

\* one new struct, nothing called yet
InitStruct ==
  /\ s = new
  /\ msg = <<>>
  /\ fin = 0
  /\ out = <<>>
  /\ panicked = FALSE
  /\ fed = 0
  /\ reuse = 0
\* no clone made
InitClone ==
  /\ t = new
  /\ tmsg = <<>>
  /\ tfin = 0
  /\ tout = <<>>
  /\ cloned = FALSE
\* no entry point called
InitEntry ==
  /\ input = <<>>
  /\ pc = "caller"
  /\ bytes = 0
  /\ err = "none"
  /\ read_failed = FALSE
  /\ ret = <<>>
  /\ sched = <<>>
  /\ blocks = <<>>
  /\ loop = NoLoop

Init == InitStruct /\ InitClone /\ InitEntry

\* a call on a finished struct counts as a reuse
Reusing == IF fin > 0 THEN 1 ELSE 0

\* s.update(data)
Update(n) ==
  /\ ~panicked
  /\ fed + n <= MaxFed
  /\ reuse + Reusing <= MaxReuse
  /\ LET data == Piece(Len(msg), n)
     IN  IF update_panics(s, data)
         THEN panicked' = TRUE /\ UNCHANGED <<s, msg>>
         ELSE /\ msg' = msg \o data
              /\ s' = update(s, data)
              /\ UNCHANGED panicked
  /\ fed' = fed + n
  /\ reuse' = reuse + Reusing
  /\ out' = <<>>
  /\ blocks' = <<>>
  /\ UNCHANGED <<fin, cvars, input, pc, bytes, err, read_failed, ret, sched, loop>>

\* s.finish()
Finish ==
  /\ ~panicked
  /\ reuse + Reusing <= MaxReuse
  /\ IF finish_panics(s)
     THEN panicked' = TRUE /\ UNCHANGED <<s, out, fin, blocks, loop>>
     ELSE /\ \E tr \in {finish_trace(s)} :
               /\ s' = tr.self
               /\ blocks' = tr.blocks
               /\ out' = hash(tr.self)
          /\ fin' = fin + 1
          /\ UNCHANGED panicked
  /\ reuse' = reuse + Reusing
  /\ UNCHANGED <<msg, fed, cvars, input, pc, bytes, err, read_failed, ret,
                 sched, loop>>

\* s.reset()
Reset ==
  /\ ~panicked
  /\ reuse < MaxReuse
  /\ s' = reset(s)
  /\ msg' = <<>>
  /\ fin' = 0
  /\ out' = <<>>
  /\ reuse' = reuse + 1
  /\ blocks' = <<>>
  /\ UNCHANGED <<panicked, fed, cvars, input, pc, bytes, err, read_failed, ret,
                 sched, loop>>

\* s = Sha1::new()
New ==
  /\ ~panicked
  /\ s' = new
  /\ msg' = <<>>
  /\ fin' = 0
  /\ out' = <<>>
  /\ blocks' = <<>>
  /\ UNCHANGED <<panicked, fed, reuse, cvars, input, pc, bytes, err,
                 read_failed, ret, sched, loop>>

\* s = s.clone(): the caller goes on with a clone of the struct
ContinueWithClone ==
  /\ ~panicked
  /\ s' = clone(s)
  /\ UNCHANGED <<msg, fin, out, panicked, fed, reuse, cvars, evars>>

Next ==
  \/ \E n \in Lens : Update(n)
  \/ Finish
  \/ Reset
  \/ New
  \/ ContinueWithClone

Spec == Init /\ [][Next]_vars

(***************************************************************************)
(* Properties of Spec.                                                     *)
(***************************************************************************)
\* the calls since new() or reset() were updates and then one finish
ProperlyFinished == fin = 1 /\ out # <<>>

\* C2: however the text was split into update calls, finish() returns the
\* digest that one update of the whole text and finish() return
ChunkingInvariance == ProperlyFinished => out = digest(msg)
\* a finished text of 119 bytes: it was passed in two pieces, 55 + 64 or
\* 64 + 55
ChunkingWitness == ProperlyFinished /\ Len(msg) = 119 /\ out = digest(msg)

\* C3: no update or finish call panics, a call on a finished struct included
NoCallPanics == ~panicked

\* C4 as claimed: the fill count is below 64 between calls, in every state
UsedBelow64Always == s.used < 64
\* C4 amended: the fill count never exceeds 64, and it is below 64 as long
\* as finish has not been called since new() or reset()
UsedBelow64UntilFinish == s.used <= 64 /\ (fin = 0 => s.used < 64)
\* finish() on a text of 63 bytes has left the fill count at 64
UsedWitness == fin = 1 /\ Len(msg) = 63 /\ s.used = 64

\* C5: update of n bytes on a state with used = u < 64 and c chunks processed
\* leaves used = (u + n) mod 64 and c + (u + n) div 64 chunks processed
UpdatePostcondition ==
  [][\A n \in Lens :
       (Update(n) /\ s.used < 64) =>
         /\ s'.used = (s.used + n) % 64
         /\ s'.used < 64
         /\ s'.chunks_processed = s.chunks_processed + ((s.used + n) \div 64)
    ]_vars
\* exactly 64 bytes were passed to a fresh struct: no byte is buffered and
\* one chunk is processed
UpdateWitness ==
  fin = 0 /\ reuse = 0 /\ Len(msg) = 64 /\ s.used = 0
  /\ s.chunks_processed = 1

\* the digest finish() returns on a freshly constructed struct
EmptyDigest == hash(finish(new))

\* C6: reset() on any reachable state restores the five initial hash words,
\* and finish() after it returns what finish() on a new struct returns
ResetEquivalence ==
  LET r == reset(s)
  IN  /\ hash(r) = <<InitH0, InitH1, InitH2, InitH3, InitH4>>
      /\ hash(finish(r)) = EmptyDigest
      /\ (reuse > 0 /\ msg = <<>> /\ ProperlyFinished) => out = EmptyDigest
\* reset() was called on a struct that had absorbed bytes and been finished,
\* and finish() was called after it
ResetWitness ==
  /\ reuse = 1 /\ fed > 0 /\ msg = <<>> /\ ProperlyFinished
  /\ out = EmptyDigest

\* C7: finish() on a properly used struct processes two chunks when the
\* length of the text modulo 64 is in 56..63, and one chunk otherwise
PaddingBoundary ==
  [][(fin = 0 /\ fin' = 1) =>
       s'.chunks_processed - s.chunks_processed =
         IF Len(msg) % 64 >= 56 THEN 2 ELSE 1
    ]_vars
\* a finished text of 120 bytes: one chunk of text, two of padding
PaddingWitness ==
  ProperlyFinished /\ Len(msg) = 120 /\ s.chunks_processed = 3

\* C8: before finish, chunks_processed * 512 + 8 * used is the number of
\* bits passed to update since new() or reset()
BitCount ==
  fin = 0 => (s.chunks_processed * 512) + (8 * s.used) = 8 * Len(msg)
\* 126 bytes absorbed in two pieces of 63
BitCountWitness ==
  fin = 0 /\ Len(msg) = 126 /\ s.chunks_processed = 1 /\ s.used = 62

\* C13: a call on a struct in proper use, that is one on which finish() has
\* not been called since new() or reset(), completes without a panic: every
\* slice, index and counter operation of update and finish is in range
NoFaultInProperUse == [][fin = 0 => ~panicked']_vars
\* a struct that was finished and reset has absorbed 63 bytes and been
\* finished along the two-chunk path, with no panic
NoFaultWitness ==
  /\ reuse = 1 /\ fed > 63 /\ ProperlyFinished /\ Len(msg) = 63
  /\ ~panicked /\ s.chunks_processed = 2

\* C15: when the text leaves 56 or more bytes in the chunk, finish() on a
\* properly used struct compresses two chunks: the buffered tail of the
\* text, 0x80 and zeros up to position 64, and then a chunk whose bytes
\* 0..55 are all zero, which is the chunk the struct is left with
TwoBlockPadding ==
  (ProperlyFinished /\ Len(msg) % 64 >= 56) =>
    LET u == Len(msg) % 64
        tail == SubSeq(msg, (Len(msg) - u) + 1, Len(msg))
    IN  /\ Len(blocks) = 2
        /\ blocks[1] = tail \o <<128>> \o [k \in 1..(63 - u) |-> 0]
        /\ \A k \in 1..56 : blocks[2][k] = 0
        /\ blocks[2] = s.chunk
\* a finished text of 120 bytes: the first padding chunk holds the last 56
\* bytes of the text and 0x80 at position 56, the second starts with zeros
TwoBlockWitness ==
  /\ ProperlyFinished /\ Len(msg) = 120 /\ Len(blocks) = 2
  /\ blocks[1][56] = Byte(119) /\ blocks[1][57] = 128 /\ blocks[1][58] = 0
  /\ blocks[2][1] = 0 /\ blocks[2][56] = 0

\* C16: bytes 56..63 of the last chunk finish() compresses on a properly
\* used struct are 8 times the length of the text as a 64-bit big-endian
\* number, whether finish() compressed one chunk or two
LengthBytesBigEndian ==
  ProperlyFinished =>
    LET bits == 8 * Len(msg)
    IN  /\ Len(blocks) = (IF Len(msg) % 64 >= 56 THEN 2 ELSE 1)
        /\ SubSeq(blocks[Len(blocks)], 57, 64) =
             <<0, 0, 0, 0, (bits \div 16777216) % 256, (bits \div 65536) % 256,
               (bits \div 256) % 256, bits % 256>>
\* a finished text of 119 bytes, 952 = 3 * 256 + 184 bits, padded in one chunk
\* after one chunk of text
LengthBytesWitness ==
  /\ ProperlyFinished /\ Len(msg) = 119 /\ Len(blocks) = 1
  /\ SubSeq(blocks[1], 57, 64) = <<0, 0, 0, 0, 0, 0, 3, 184>>

\* the lengths of the data hashed after a reset
ResetLens == {1, 63}
\* the data hashed after a reset: bytes other than those of the text
ResetData(n) == [j \in 1..n |-> 65 + ((j - 1) % 26)]
\* digest of the data of each length
ResetDigests == [n \in ResetLens |-> digest(ResetData(n))]

\* C17: on every reachable state, finished ones included, reset() followed
\* by update(d) and finish() returns digest(d), whatever bytes the chunk
\* still holds; and a struct that was reset and then properly used returns
\* the digest of the text
ResetThenHash ==
  /\ \A n \in ResetLens :
       hash(finish(update(reset(s), ResetData(n)))) = ResetDigests[n]
  /\ (reuse > 0 /\ ProperlyFinished /\ msg # <<>>) => out = digest(msg)
\* 63 bytes were absorbed, reset() was called, and 63 more bytes were
\* absorbed and finished over the bytes the chunk still held
ResetThenHashWitness ==
  /\ reuse = 1 /\ fed = 126 /\ Len(msg) = 63 /\ ProperlyFinished
  /\ out = digest(msg) /\ s.used = 64

\* C19: update with no data on a struct whose fill count is below 64 leaves
\* the chunk, the fill count, the chunk counter and the five hash words as
\* they are
EmptyUpdateFrame ==
  /\ [](s.used < 64 => update(s, <<>>) = s)
  /\ [][(Update(0) /\ s.used < 64) => (s' = s /\ msg' = msg)]_vars
\* update with no data was called on a struct finished after 55 bytes: the
\* struct still holds 56 as fill count, one chunk processed and the digest
UpdateEmptyWitness ==
  /\ fin = 1 /\ reuse = 1 /\ out = <<>> /\ fed = 55 /\ Len(msg) = 55
  /\ s.used = 56 /\ s.chunks_processed = 1 /\ hash(s) = digest(msg)

(***************************************************************************)
(* SHA-1 as the standard (FIPS 180-4) defines it, to compare digest with:  *)
(* the padding as one formula over the whole message, the message schedule *)
(* W_t = ROTL1(W_(t-3) + W_(t-8) + W_(t-14) + W_(t-16)) (+ is xor) for all *)
(* t in 16..79, the functions Ch, Parity and Maj, and a rotation defined   *)
(* by doubling.                                                            *)
(***************************************************************************)
StdRotl1(x) ==
  <<((2 * x[1]) % 65536) + (x[2] \div 32768),
    ((2 * x[2]) % 65536) + (x[1] \div 32768)>>
StdRotr1(x) ==
  <<(x[1] \div 2) + ((x[2] % 2) * 32768),
    (x[2] \div 2) + ((x[1] % 2) * 32768)>>
StdRotl5(x) == StdRotl1(StdRotl1(StdRotl1(StdRotl1(StdRotl1(x)))))
\* a rotation left by 30 is a rotation right by 2
StdRotl30(x) == StdRotr1(StdRotr1(x))

\* the message, the bit 1, k zero bits up to 448 mod 512, the 64-bit length
StdPad(m) ==
  LET zeros == ((64 + 55) - (Len(m) % 64)) % 64
      bits == 8 * Len(m)
  IN  m \o <<128>> \o [k \in 1..zeros |-> 0]
        \o <<0, 0, 0, 0, (bits \div 16777216) % 256, (bits \div 65536) % 256,
             (bits \div 256) % 256, bits % 256>>

RECURSIVE StdSchedule(_)
StdSchedule(w) ==
  LET r == Len(w)
  IN  IF r >= 80 THEN w
      ELSE StdSchedule(Append(w,
             StdRotl1(bitxor(bitxor(bitxor(w[r - 2], w[r - 7]), w[r - 13]),
                             w[r - 15]))))

StdF(r, x, y, z) ==
  IF r < 20 THEN bitxor(bitand(x, y), bitand(bitnot(x), z))
  ELSE IF r < 40 THEN bitxor(bitxor(x, y), z)
  ELSE IF r < 60
  THEN bitxor(bitxor(bitand(x, y), bitand(x, z)), bitand(y, z))
  ELSE bitxor(bitxor(x, y), z)

\* 5a827999, 6ed9eba1, 8f1bbcdc, ca62c1d6
StdK(r) ==
  IF r < 20 THEN <<23170, 31129>>
  ELSE IF r < 40 THEN <<28377, 60321>>
  ELSE IF r < 60 THEN <<36635, 48348>>
  ELSE <<51810, 49622>>

\* the rounds up to (not including) round `upto`
RECURSIVE StdRounds(_, _, _)
StdRounds(v, w, upto) ==
  IF v.r >= upto THEN v
  ELSE StdRounds(
         [a |-> wrapping_add(wrapping_add(wrapping_add(wrapping_add(
                  StdRotl5(v.a), StdF(v.r, v.b, v.c, v.d)), v.e),
                  StdK(v.r)), w[v.r + 1]),
          b |-> v.a, c |-> StdRotl30(v.b), d |-> v.c, e |-> v.d,
          r |-> v.r + 1], w, upto)

\* the hash value after block number i (from 0) of the padded message
RECURSIVE StdBlocks(_, _, _)
StdBlocks(H, padded, i) ==
  IF 64 * i >= Len(padded) THEN H
  ELSE LET block == SubSeq(padded, (64 * i) + 1, 64 * (i + 1))
           w == StdSchedule([j \in 1..16 |->
                  <<(block[(4 * j) - 3] * 256) + block[(4 * j) - 2],
                    (block[(4 * j) - 1] * 256) + block[4 * j]>>])
           v0 == [a |-> H[1], b |-> H[2], c |-> H[3], d |-> H[4],
                  e |-> H[5], r |-> 0]
           v == StdRounds(StdRounds(StdRounds(StdRounds(v0, w, 20), w, 40),
                                    w, 60), w, 80)
           H1 == <<wrapping_add(H[1], v.a), wrapping_add(H[2], v.b),
                   wrapping_add(H[3], v.c), wrapping_add(H[4], v.d),
                   wrapping_add(H[5], v.e)>>
       IN  IF Len(H1) = 5 THEN StdBlocks(H1, padded, i + 1) ELSE H1

\* 67452301 efcdab89 98badcfe 10325476 c3d2e1f0
Sha1Standard(m) ==
  StdBlocks(<< <<26437, 8961>>, <<61389, 43913>>, <<39098, 56574>>,
               <<4146, 21622>>, <<50130, 57840>> >>, StdPad(m), 0)

\* the known digests of "" and "abc":
\* da39a3ee 5e6b4b0d 3255bfef 95601890 afd80709
\* a9993e36 4706816a ba3e2571 7850c26c 9cd0d89d
KnownEmptyDigest == << <<55865, 41966>>, <<24171, 19213>>, <<12885, 49135>>, <<38240, 6288>>, <<45016, 1801>> >>
KnownAbcDigest == << <<43417, 15926>>, <<18182, 33130>>, <<47678, 9585>>, <<30800, 49772>>, <<40144, 55453>> >>

(***************************************************************************)
(* SpecDigest: a caller of Sha1::digest(data).                             *)
(***************************************************************************)
\* the longest run of 'a' given to digest
MaxRepeat == 299

\* "" and 1 .. MaxRepeat times 'a', and "abc"
DigestInputs ==
  {[j \in 1..n |-> 97] : n \in 0..MaxRepeat} \cup {<<97, 98, 99>>}

InitDigest ==
  /\ InitStruct
  /\ InitClone
  /\ input \in DigestInputs
  /\ pc = "digest"
  /\ bytes = 0
  /\ err = "none"
  /\ read_failed = FALSE
  /\ ret = <<>>
  /\ sched = <<>>
  /\ blocks = <<>>
  /\ loop = NoLoop

\* out = Sha1::digest(input)
DigestCall ==
  /\ pc = "digest"
  /\ out' = digest(input)
  /\ pc' = "done"
  /\ UNCHANGED <<s, msg, fin, panicked, fed, reuse, cvars, input, bytes, err,
                 read_failed, ret, sched, blocks, loop>>

NextDigest == DigestCall

SpecDigest == InitDigest /\ [][NextDigest]_vars

\* C1: digest(d) is the SHA-1 digest of d as the standard defines it, for ""
\* and every run of 'a' up to MaxRepeat, and the known digests of "" and "abc"
DigestIsSha1 ==
  pc = "done" =>
    /\ out = Sha1Standard(input)
    /\ (input = <<>> => out = KnownEmptyDigest)
    /\ (input = <<97, 98, 99>> => out = KnownAbcDigest)
\* digest("abc") has returned
DigestWitness ==
  pc = "done" /\ input = <<97, 98, 99>> /\ out = KnownAbcDigest

(***************************************************************************)
(* SpecClone: a struct s and one clone t of it, made at any point, each    *)
(* then used on its own.  The original goes on with the text Byte; the     *)
(* clone absorbs the bytes CloneByte after the common prefix.              *)
(***************************************************************************)
\* the most bytes either struct absorbs between new()/reset() and finish()
MaxCloneMsg == 100
\* the most reset() calls in a run, on either struct
MaxCloneResets == 1

CloneLens == {0, 50}

CloneByte(p) == 65 + (p % 26)
ClonePiece(pos, n) == [j \in 1..n |-> CloneByte((pos + j) - 1)]

\* s.update(data)
OrigUpdate(n) ==
  /\ fin = 0
  /\ Len(msg) + n <= MaxCloneMsg
  /\ LET data == Piece(Len(msg), n)
     IN  /\ msg' = msg \o data
         /\ s' = update(s, data)
  /\ out' = <<>>
  /\ UNCHANGED <<fin, panicked, fed, reuse, cvars, evars>>

\* s.finish()
OrigFinish ==
  /\ fin = 0
  /\ ~finish_panics(s)
  /\ s' = finish(s)
  /\ out' = hash(s')
  /\ fin' = 1
  /\ UNCHANGED <<msg, panicked, fed, reuse, cvars, evars>>

\* s.reset()
OrigReset ==
  /\ reuse < MaxCloneResets
  /\ s' = reset(s)
  /\ msg' = <<>>
  /\ fin' = 0
  /\ out' = <<>>
  /\ reuse' = reuse + 1
  /\ UNCHANGED <<panicked, fed, cvars, evars>>

\* t = s.clone()
Clone ==
  /\ ~cloned
  /\ t' = clone(s)
  /\ tmsg' = msg
  /\ tfin' = fin
  /\ tout' = <<>>
  /\ cloned' = TRUE
  /\ UNCHANGED <<hvars, evars>>

\* t.update(data)
CloneUpdate(n) ==
  /\ cloned
  /\ tfin = 0
  /\ Len(tmsg) + n <= MaxCloneMsg
  /\ LET data == ClonePiece(Len(tmsg), n)
     IN  /\ tmsg' = tmsg \o data
         /\ t' = update(t, data)
  /\ tout' = <<>>
  /\ UNCHANGED <<tfin, cloned, hvars, evars>>

\* t.finish()
CloneFinish ==
  /\ cloned
  /\ tfin = 0
  /\ ~finish_panics(t)
  /\ t' = finish(t)
  /\ tout' = hash(t')
  /\ tfin' = 1
  /\ UNCHANGED <<tmsg, cloned, hvars, evars>>

\* t.reset()
CloneReset ==
  /\ cloned
  /\ reuse < MaxCloneResets
  /\ t' = reset(t)
  /\ tmsg' = <<>>
  /\ tfin' = 0
  /\ tout' = <<>>
  /\ reuse' = reuse + 1
  /\ UNCHANGED <<cloned, s, msg, fin, out, panicked, fed, evars>>

NextClone ==
  \/ \E n \in CloneLens : OrigUpdate(n)
  \/ OrigFinish
  \/ OrigReset
  \/ Clone
  \/ \E n \in CloneLens : CloneUpdate(n)
  \/ CloneFinish
  \/ CloneReset

SpecClone == Init /\ [][NextClone]_vars

\* the clone was finished after updates and no other call since the clone
\* was made or reset
CloneProperlyFinished == cloned /\ tfin = 1 /\ tout # <<>>

\* C9: a call on the clone leaves every field of the original unchanged and
\* a call on the original leaves every field of the clone unchanged; the
\* original's digest is the digest of the bytes the original absorbed, and
\* the clone's that of the common prefix and the bytes the clone absorbed
CloneIndependence ==
  /\ [](ProperlyFinished => out = digest(msg))
  /\ [](CloneProperlyFinished => tout = digest(tmsg))
  /\ [][/\ (cloned /\ t' # t) => s' = s
        /\ (cloned /\ s' # s) => t' = t]_vars
\* both finished after a common prefix of 50 bytes, which the clone was made
\* with in its chunk, and 50 different bytes each after that
CloneWitness ==
  /\ ProperlyFinished /\ CloneProperlyFinished
  /\ Len(msg) = 100 /\ Len(tmsg) = 100
  /\ tmsg[50] = msg[50] /\ tmsg[51] # msg[51]
  /\ out = digest(msg) /\ tout = digest(tmsg) /\ out # tout

(***************************************************************************)
(* SpecStream: a caller of Sha1::digest_file(file).  io::copy reads the    *)
(* file chunk by chunk, each read returning as many bytes as it likes (at  *)
(* least one, at most what is left), and passes every chunk to write; a    *)
(* read of no bytes is the end of the file.  A read may also return an     *)
(* error: io::copy retries a read that failed with ErrorKind::Interrupted  *)
(* and returns every other error to its caller at once.  In this           *)
(* specification msg is the part of the file read so far.                  *)
(***************************************************************************)
\* the file lengths
FileLens == {0, 3, 55, 56, 63, 64, 119, 120, 128}
\* the most bytes a read may return
ReadLens == {1, 8, 55, 64}

InitStream ==
  /\ InitStruct
  /\ InitClone
  /\ input \in {Piece(0, n) : n \in FileLens}
  /\ pc = "copy"
  /\ bytes = 0
  /\ err = "none"
  /\ read_failed = FALSE
  /\ ret = <<>>
  /\ sched = <<>>
  /\ blocks = <<>>
  /\ loop = NoLoop

Min(a, b) == IF a <= b THEN a ELSE b

\* one round of io::copy: a read of up to n bytes, written to the struct
StreamRead(n) ==
  /\ pc = "copy"
  /\ Len(msg) < Len(input)
  /\ LET got == Min(n, Len(input) - Len(msg))
         data == SubSeq(input, Len(msg) + 1, Len(msg) + got)
     IN  \E w \in {write(s, data)} :
           /\ s' = w.self
           /\ bytes' = bytes + w.ok
           /\ msg' = msg \o data
  /\ UNCHANGED <<fin, out, panicked, fed, reuse, cvars, input, pc, err,
                 read_failed, ret, sched, blocks, loop>>

\* the read at the end of the file returns 0: io::copy returns Ok(bytes),
\* and digest_file returns Ok((s.finish(), bytes))
StreamEnd ==
  /\ pc = "copy"
  /\ Len(msg) = Len(input)
  /\ \E r \in {digest_file_return(s, [ok |-> TRUE, bytes |-> bytes,
                                       err |-> "none"])} :
         /\ s' = r.self
         /\ out' = r.hash
         /\ fin' = fin + r.finished
         /\ err' = r.err
         /\ bytes' = r.bytes
         /\ pc' = IF r.ok THEN "done" ELSE "failed"
  /\ UNCHANGED <<msg, panicked, fed, reuse, cvars, input, read_failed, ret, sched, blocks, loop>>

\* the kinds of error a read of the file may return
ReadErrors == {"Interrupted", "IsADirectory", "Other"}

\* a read returns Err of kind Interrupted: io::copy reads again
StreamReadInterrupted ==
  /\ pc = "copy"
  /\ read_failed' = TRUE
  /\ UNCHANGED <<hvars, cvars, input, pc, bytes, err, ret, sched, blocks, loop>>

\* a read returns Err of another kind: io::copy returns it, and so does
\* digest_file
StreamReadFails(kind) ==
  /\ pc = "copy"
  /\ kind # "Interrupted"
  /\ \E r \in {digest_file_return(s, [ok |-> FALSE, bytes |-> bytes,
                                       err |-> kind])} :
         /\ s' = r.self
         /\ out' = r.hash
         /\ fin' = fin + r.finished
         /\ err' = r.err
         /\ bytes' = r.bytes
         /\ pc' = IF r.ok THEN "done" ELSE "failed"
  /\ read_failed' = TRUE
  /\ UNCHANGED <<msg, panicked, fed, reuse, cvars, input, ret, sched, blocks, loop>>

NextStream ==
  \/ \E n \in ReadLens : StreamRead(n)
  \/ StreamEnd
  \/ StreamReadInterrupted
  \/ \E kind \in ReadErrors : StreamReadFails(kind)

SpecStream == InitStream /\ [][NextStream]_vars

\* C10: for a file the reads of which return its bytes in chunks of any
\* sizes and never fail, digest_file returns the digest digest returns on
\* the contents, and the length of the contents as the byte count
StreamEqualsDigest ==
  pc = "done" => out = digest(input) /\ bytes = Len(input)
\* a file of 120 bytes, which takes at least two reads, was hashed
StreamWitness ==
  pc = "done" /\ Len(input) = 120 /\ bytes = 120 /\ out = digest(input)

\* C11 as claimed: once any read of the file has failed, digest_file returns
\* no digest: it does not finish, and it returns an error
ReadFailureAlwaysReturned ==
  read_failed => (pc # "done" /\ out = <<>> /\ fin = 0)
\* C11 amended: a read that fails with a kind other than Interrupted makes
\* digest_file return that error at once, without calling finish() and
\* without a digest, whatever was absorbed before; a digest is returned only
\* with no error
ReadFailurePropagates ==
  /\ [](pc = "failed" =>
         /\ err \in ReadErrors \ {"Interrupted"}
         /\ out = <<>>
         /\ fin = 0)
  /\ [](pc = "done" => (err = "none" /\ out # <<>>))
  /\ [][\A kind \in ReadErrors \ {"Interrupted"} :
          StreamReadFails(kind) =>
            (pc' = "failed" /\ err' = kind /\ out' = <<>> /\ fin' = 0)]_vars
\* a read failed after one chunk of the file had been processed
ReadFailureWitness ==
  /\ pc = "failed" /\ err = "Other" /\ out = <<>> /\ fin = 0
  /\ s.chunks_processed = 1 /\ Len(msg) = 119

(***************************************************************************)
(* SpecSink: a caller that uses the struct as an io::Write sink: write and *)
(* flush calls in any order, one finish(), and writes to the finished      *)
(* struct.  The data written is the text Byte.                             *)
(***************************************************************************)
\* the most bytes written in a run
MaxSinkBytes == 66
\* the most writes to a finished struct in a run
MaxSinkReuse == 1

\* the lengths of the slices passed to write
SinkLens == {0, 1, 63, 64}

\* ret = s.write(data)
SinkWrite(n) ==
  /\ fed + n <= MaxSinkBytes
  /\ reuse + Reusing <= MaxSinkReuse
  /\ LET data == Piece(Len(msg), n)
     IN  \E w \in {write(s, data)} :
           /\ s' = w.self
           /\ ret' = <<"Ok", w.ok>>
           /\ msg' = msg \o data
  /\ fed' = fed + n
  /\ reuse' = reuse + Reusing
  /\ out' = <<>>
  /\ UNCHANGED <<fin, panicked, cvars, input, pc, bytes, err, read_failed, sched, blocks, loop>>

\* ret = s.flush()
SinkFlush ==
  /\ LET f == flush(s)
     IN  /\ s' = f.self
         /\ ret' = IF f.ok THEN <<"Ok">> ELSE <<"Err">>
  /\ UNCHANGED <<msg, fin, out, panicked, fed, reuse, cvars, input, pc, bytes,
                 err, read_failed, sched, blocks, loop>>

\* s.finish()
SinkFinish ==
  /\ fin = 0
  /\ s' = finish(s)
  /\ out' = hash(s')
  /\ fin' = 1
  /\ ret' = <<>>
  /\ UNCHANGED <<msg, panicked, fed, reuse, cvars, input, pc, bytes, err,
                 read_failed, sched, blocks, loop>>

NextSink ==
  \/ \E n \in SinkLens : SinkWrite(n)
  \/ SinkFlush
  \/ SinkFinish

SpecSink == Init /\ [][NextSink]_vars

\* C12: write(data) leaves the struct as update(data) leaves it and returns
\* Ok(len(data)), on every state, a finished one included; flush() returns
\* Ok(()) and leaves every field of the struct unchanged
SinkAdapter ==
  [][/\ \A n \in SinkLens :
          SinkWrite(n) =>
            (s' = update(s, Piece(Len(msg), n)) /\ ret' = <<"Ok", n>>)
     /\ SinkFlush => (s' = s /\ ret' = <<"Ok">>)
    ]_vars
\* a write of 64 bytes to a struct holding one byte: a chunk was processed,
\* one byte is buffered and the count returned is 64
SinkWitness ==
  /\ fin = 0 /\ Len(msg) = 65 /\ ret = <<"Ok", 64>>
  /\ s.chunks_processed = 1 /\ s.used = 1

(***************************************************************************)
(* SpecSchedule: process_chunk called on a struct whose chunk holds one    *)
(* 64-byte block.  The blocks are the zero block, the 512 blocks with one  *)
(* bit set, the block of 64 bytes 0xFF and a block of text.  The schedule  *)
(* is built from xor and rotations only, so it is linear over the bits of  *)
(* the block, and the one-bit blocks span every block.                     *)
(***************************************************************************)
\* the block whose only bit set is bit b, counted from the most significant
\* bit of byte 0
UnitBlock(b) ==
  [k \in 1..64 |-> IF k = (b \div 8) + 1 THEN Pow2(7 - (b % 8)) ELSE 0]

ScheduleBlocks ==
  {UnitBlock(b) : b \in 0..((64 * 8) - 1)}
    \cup {[k \in 1..64 |-> 0], [k \in 1..64 |-> 255], Piece(0, 64)}

InitSchedule ==
  /\ InitStruct
  /\ InitClone
  /\ input \in ScheduleBlocks
  /\ pc = "chunk"
  /\ bytes = 0
  /\ err = "none"
  /\ read_failed = FALSE
  /\ ret = <<>>
  /\ sched = <<>>
  /\ blocks = <<>>
  /\ loop = NoLoop

\* the chunk is filled with the block and process_chunk is called
ProcessChunk ==
  /\ pc = "chunk"
  /\ s' = process_chunk([s EXCEPT !.chunk = input])
  /\ sched' = schedule(input)
  /\ pc' = "done"
  /\ UNCHANGED <<msg, fin, out, panicked, fed, reuse, cvars, input, bytes,
                 err, read_failed, ret, blocks, loop>>

NextSchedule == ProcessChunk

SpecSchedule == InitSchedule /\ [][NextSchedule]_vars

\* C14: the 80 words process_chunk builds with a rotation by 1 for words
\* 16..31 and the rotation by 2 of w[i-6] ^ w[i-16] ^ w[i-28] ^ w[i-32] for
\* words 32..79 are the words of the standard's recurrence, a rotation by 1
\* of w[i-3] ^ w[i-8] ^ w[i-14] ^ w[i-16] for every word 16..79
ScheduleEquivalence ==
  pc = "done" => (Len(sched) = 80 /\ sched = StdSchedule(first16(input)))
\* the block with only the top bit of word 0 set: word 16 is that bit
\* rotated around to the lowest position
ScheduleWitness ==
  /\ pc = "done" /\ input = UnitBlock(0)
  /\ sched[1] = <<32768, 0>> /\ sched[17] = <<0, 1>>
  /\ sched[80] = StdSchedule(first16(input))[80]

(***************************************************************************)
(* SpecLoop: update with every iteration of its while loop as a step.  The *)
(* caller passes pieces of the text Byte to update and calls finish() once *)
(* at any point; update calls on the finished struct, whose fill count may *)
(* be 64, are part of it.                                                  *)
(***************************************************************************)
\* the most bytes passed to update in a run
MaxLoopFed == 192
\* the most update calls on a finished struct in a run
MaxLoopReuse == 1

\* the lengths of the pieces passed to update
LoopLens == {0, 63, 64, 129}

\* the end of the loop body with `remaining -= used; i += used;`
loop_step_subtracts_used(l) ==
  [l EXCEPT !.remaining = l.remaining - l.used, !.i = l.i + l.used,
            !.used = 0, !.free = 64, !.iters = l.iters + 1]

\* the end of the loop body: remaining -= free; i += free; used = 0;
\* free = 64 (and one more iteration counted)
loop_step(l) ==
  [l EXCEPT !.remaining = l.remaining - l.free, !.i = l.i + l.free,
            !.used = 0, !.free = 64, !.iters = l.iters + 1]

\* s.update(data) is called: the local variables are set up
UpdateEnter(n) ==
  /\ pc = "caller"
  /\ fed + n <= MaxLoopFed
  /\ reuse + Reusing <= MaxLoopReuse
  /\ s.used <= 64
  /\ loop' = [data |-> Piece(Len(msg), n), used |-> s.used,
              free |-> 64 - s.used, i |-> 0, remaining |-> n, iters |-> 0,
              self0 |-> s]
  /\ pc' = "loop"
  /\ fed' = fed + n
  /\ reuse' = reuse + Reusing
  /\ out' = <<>>
  /\ UNCHANGED <<s, msg, fin, panicked, cvars, input, bytes, err, read_failed,
                 ret, sched, blocks>>

\* one iteration of `while remaining >= free`
UpdateIterate ==
  /\ pc = "loop"
  /\ loop.remaining >= loop.free
  /\ s' = process_chunk([s EXCEPT !.chunk =
             copy_from_slice(s.chunk, loop.used, 64,
                             slice(loop.data, loop.i, loop.i + loop.free))])
  /\ loop' = loop_step(loop)
  /\ UNCHANGED <<msg, fin, out, panicked, fed, reuse, cvars, input, pc, bytes,
                 err, read_failed, ret, sched, blocks>>

\* the loop is left: the rest of the data is copied and used is stored
UpdateExit ==
  /\ pc = "loop"
  /\ loop.remaining < loop.free
  /\ s' = [s EXCEPT
             !.chunk = copy_from_slice(s.chunk, loop.used,
                                       loop.used + loop.remaining,
                                       slice(loop.data, loop.i, Len(loop.data))),
             !.used = (loop.used + loop.remaining) % 256]
  /\ msg' = msg \o loop.data
  /\ pc' = "caller"
  /\ UNCHANGED <<fin, out, panicked, fed, reuse, cvars, input, bytes, err,
                 read_failed, ret, sched, blocks, loop>>

\* s.finish(), once
LoopFinish ==
  /\ pc = "caller"
  /\ fin = 0
  /\ ~finish_panics(s)
  /\ s' = finish(s)
  /\ out' = hash(s')
  /\ fin' = 1
  /\ UNCHANGED <<msg, panicked, fed, reuse, cvars, input, pc, bytes, err,
                 read_failed, ret, sched, blocks, loop>>

NextLoop ==
  \/ \E n \in LoopLens : UpdateEnter(n)
  \/ UpdateIterate
  \/ UpdateExit
  \/ LoopFinish

SpecLoop == Init /\ [][NextLoop]_vars

\* C18: every update call returns, one on a struct whose fill count finish()
\* left at 64 included: inside update the slices of the next iteration or
\* of the exit are in range (free = 64 - used >= 0 and i + remaining =
\* len), every iteration is counted, the loop makes at most
\* (used + len) div 64 + 1 iterations, no iteration raises the remaining
\* count and every iteration after the first lowers it; the struct the call
\* leaves is update(self, data)
UpdateTerminates ==
  /\ [](pc = "loop" =>
         /\ loop.free = 64 - loop.used /\ loop.free >= 0
         /\ loop.i + loop.remaining = Len(loop.data)
         /\ loop.remaining >= 0)
  /\ [](loop.iters <=
          ((loop.self0.used + Len(loop.data)) \div 64) + 1)
  /\ [][UpdateIterate =>
          /\ loop'.iters = loop.iters + 1
          /\ loop'.remaining <= loop.remaining
          /\ loop.iters >= 1 => loop'.remaining < loop.remaining]_vars
  /\ [][UpdateExit => s' = update(loop.self0, loop.data)]_vars
\* update of 64 bytes on a finished struct with fill count 64 has returned
\* after two iterations, the first of which consumed no data
UpdateTerminatesWitness ==
  /\ pc = "caller" /\ fin = 1 /\ loop.self0.used = 64
  /\ Len(loop.data) = 64 /\ loop.iters = 2 /\ loop.remaining = 0
  /\ s.used = 0

====
